---- MODULE Spec2Model ----
(***************************************************************************)
(* Model of pkg/network/bridge/plugin.go: the network-bridge device        *)
(* plugin.  ListAndWatch advertises a pool of virtual NIC slots while the  *)
(* bridge exists, Allocate answers allocation requests and queues one      *)
(* Assignment per requested device, attachPods (one goroutine) resolves    *)
(* queued Assignments to containers and calls attachPodToBridge, which     *)
(* builds a veth pair across network namespaces.                           *)
(***************************************************************************)
EXTENDS Integers, Sequences, FiniteSets, TLC

(***************************************************************************)
(* Program constants (plugin.go:21-31)                                     *)
(***************************************************************************)
nicsPoolSize == 100

\* assignmentTimeout = 30 * time.Minute; the model clock counts units of
\* 10 minutes.
assignmentTimeout == 3

envVarNameSuffixLen == 8

fakeDevicePath == "/var/run/device-plugin-network-bridge-fakedev"

protocolEthernet == "Ethernet"

envVarNamePrefix == "NETWORK_INTERFACE_RESOURCES_"

\* letterBytes = "abcdefghijklmnopqrstuvwxyz0123456789", one string per byte
letterBytes ==
    << "a", "b", "c", "d", "e", "f", "g", "h", "i", "j", "k", "l", "m",
       "n", "o", "p", "q", "r", "s", "t", "u", "v", "w", "x", "y", "z",
       "0", "1", "2", "3", "4", "5", "6", "7", "8", "9" >>

\* nbdp.bridge: the bridge this plugin instance serves
bridgeName == "br0"

(***************************************************************************)
(* Bounds of the model                                                     *)
(***************************************************************************)
\* probes of bridge existence made by one ListAndWatch stream
MaxPolls == 4

\* OS threads the Go runtime schedules the goroutines on
NumThreads == 2

Threads == 1 .. NumThreads

\* network namespaces: the host's and the target container's
Namespaces == {"host", "ctr"}

\* what a link named nbdp.bridge can be in the host namespace
LinkKinds == {"absent", "bridge", "other"}

\* container requests of one Allocate call, and device IDs of one request
MaxRequests == 2

MaxDevices == 2

\* capacity of nbdp.assignmentCh: 0 (unbuffered) .. MaxChanCap
MaxChanCap == 1

\* the capacities nbdp.assignmentCh may have been made with (the channel is
\* made where the plugin is constructed)
ChannelCapacities == 0 .. MaxChanCap

\* the clock runs from 0 to MaxTime (units of 10 minutes)
MaxTime == 5

VARIABLES
    bridgeLink,      \* kernel: kind of the host-namespace link named nbdp.bridge
    threadNs,        \* kernel: network namespace of each OS thread
    veth,            \* kernel: the veth pair of the current attachPodToBridge call
    now,             \* wall clock, time.Now()
    containers,      \* Docker: state of the container mounting each assignment path
    script,          \* the ContainerRequests the kubelet will call Allocate with
    randSource,      \* math/rand: the rand.Intn results of the k-th randString(8) call
    marshalErr,      \* encoding/json: whether the k-th json.Marshal call fails
    lwThread,        \* OS thread the ListAndWatch goroutine runs on
    lwPc,            \* ListAndWatch: "start" (l.79), "poll" (l.95), "sleep" (l.100)
    didBridgeExist,  \* ListAndWatch: local didBridgeExist
    stream,          \* messages handed to s.Send, in order
    probes,          \* results of the bridgeExists calls of ListAndWatch, in order
    chanCap,         \* capacity nbdp.assignmentCh was made with
    assignmentCh,    \* buffered content of nbdp.assignmentCh
    nextId,          \* identity (pointer) of the next Assignment allocated
    allocPc,         \* Allocate: "idle", "device" (l.133), "marshal" (l.149),
                     \* "return" (l.171), "done"
    allocReqs,       \* Allocate: r.ContainerRequests, each a sequence of device IDs
    reqIdx,          \* Allocate: index of the current container request
    devIdx,          \* Allocate: index of the current device ID
    devices,         \* Allocate: local devices
    vnics,           \* Allocate: local vnics
    response,        \* Allocate: response.ContainerResponses
    allocSent,       \* Assignments this Allocate call has put on the channel
    allocFaults,     \* json.Marshal failures of this Allocate call
    workerThread,    \* OS thread the attachPods goroutine runs on
    wPc,             \* attachPods / attachPodToBridge: the statement it stands at
    pending,         \* attachPods: pendingAssignments, front first
    cur,             \* attachPods: id of the list element a, 0 for nil
    originalNS,      \* attachPodToBridge: originalNS
    attachErr,       \* attachPodToBridge: the error it returns (FALSE for nil)
    created,         \* attachPodToBridge: netlink.LinkAdd has succeeded in this call
    switched,        \* attachPodToBridge: the thread netns.Set(ns) has switched and
                     \* the namespace it was in before (thread 0: none)
    crashed,         \* the process has died in a panic
    resolvedLog,     \* ids whose container and pid attachPods has resolved, in order
    attachLog,       \* ids attachPodToBridge has been invoked for, in order
    expiredLog,      \* ids attachPods has removed as timed out, in order
    resolvable,      \* ids whose container was running at a time in
                     \* [Created, Created + assignmentTimeout]
    passVisited      \* ids the loop of l.209 has visited since the last select

lwVars == << lwThread, lwPc, didBridgeExist, stream, probes >>

kernelVars == << bridgeLink, threadNs, veth >>

envVars == << now, containers, script, randSource, marshalErr >>

allocVars ==
    << allocPc, allocReqs, reqIdx, devIdx, devices, vnics, response,
       allocSent, allocFaults >>

chanVars == << chanCap, assignmentCh, nextId >>

attachVars == << originalNS, attachErr, created, switched >>

logVars == << resolvedLog, attachLog, expiredLog >>

histVars == << resolvable, passVisited >>

workerVars == << workerThread, wPc, pending, cur, attachVars, crashed, logVars >>

vars ==
    << kernelVars, envVars, lwVars, allocVars, chanVars, workerVars, histVars >>

(***************************************************************************)
(* fmt.Sprintf("%s-%02d", nbdp.bridge, i)                                  *)
(***************************************************************************)
DecimalDigits == << "0", "1", "2", "3", "4", "5", "6", "7", "8", "9" >>

RECURSIVE FormatInt(_)
FormatInt(n) ==
    IF n < 10 THEN DecimalDigits[n + 1]
    ELSE FormatInt(n \div 10) \o DecimalDigits[(n % 10) + 1]

\* %02d: decimal, zero-padded to a width of at least 2
Format02d(n) == IF n < 10 THEN "0" \o FormatInt(n) ELSE FormatInt(n)

DeviceID(i) == bridgeName \o "-" \o Format02d(i)

\* as generateBridgeDevices, with "%d" in place of "%02d"
generateBridgeDevicesUnpadded ==
    [ k \in 1 .. nicsPoolSize |->
        [ ID |-> bridgeName \o "-" \o FormatInt(k - 1), Health |-> "Healthy" ] ]

\* generateBridgeDevices: devices 0 .. nicsPoolSize-1, appended in order
generateBridgeDevices ==
    [ k \in 1 .. nicsPoolSize |-> [ ID |-> DeviceID(k - 1), Health |-> "Healthy" ] ]

\* noBridgeDevs := make([]*pluginapi.Device, 0)
noBridgeDevs == << >>

\* emitResponse(bridgeExists): the ListAndWatchResponse handed to s.Send
emitResponse(exists) ==
    IF exists THEN [ Devices |-> generateBridgeDevices ]
              ELSE [ Devices |-> noBridgeDevs ]

\* bridgeExists(bridge), called on an OS thread whose namespace is ns:
\* netlink.LinkByName looks the name up in the namespace of the calling
\* thread; false on a lookup error and on a link that is not a bridge.
\* The container's namespace holds no link named nbdp.bridge.
bridgeExists(ns) ==
    IF ns = "host" THEN bridgeLink = "bridge" ELSE FALSE

(***************************************************************************)
(* Environment: the bridge is created, deleted or replaced by another      *)
(* kind of link of the same name.                                          *)
(***************************************************************************)
BridgeChange ==
    /\ \E k \in LinkKinds \ {bridgeLink} : bridgeLink' = k
    /\ UNCHANGED << threadNs, veth, envVars, lwVars, allocVars, chanVars, workerVars, histVars >>

(***************************************************************************)
(* ListAndWatch (plugin.go:78-102)                                         *)
(***************************************************************************)
\* l.79-92: build the payloads, probe once, emit the first response
LWStart ==
    /\ ~crashed
    /\ lwPc = "start"
    /\ LET exists == bridgeExists(threadNs[lwThread]) IN
        /\ didBridgeExist' = exists
        /\ probes' = Append(probes, exists)
        /\ stream' = Append(stream, emitResponse(exists))
    /\ lwPc' = "poll"
    /\ UNCHANGED << kernelVars, envVars, lwThread, allocVars, chanVars, workerVars, histVars >>

\* as LWPoll, emitting on every poll
LWPollEmitAlways ==
    /\ ~crashed
    /\ lwPc = "poll"
    /\ Len(probes) < MaxPolls
    /\ LET doesBridgeExist == bridgeExists(threadNs[lwThread]) IN
        /\ probes' = Append(probes, doesBridgeExist)
        /\ stream' = Append(stream, emitResponse(doesBridgeExist))
        /\ didBridgeExist' = doesBridgeExist
    /\ lwPc' = "sleep"
    /\ UNCHANGED << kernelVars, envVars, lwThread, allocVars, chanVars, workerVars, histVars >>

\* l.95-99: one poll; emit only when the probe differs from didBridgeExist
LWPoll ==
    /\ ~crashed
    /\ lwPc = "poll"
    /\ Len(probes) < MaxPolls
    /\ LET doesBridgeExist == bridgeExists(threadNs[lwThread]) IN
        /\ probes' = Append(probes, doesBridgeExist)
        /\ IF didBridgeExist # doesBridgeExist
           THEN /\ stream' = Append(stream, emitResponse(doesBridgeExist))
                /\ didBridgeExist' = doesBridgeExist
           ELSE UNCHANGED << stream, didBridgeExist >>
    /\ lwPc' = "sleep"
    /\ UNCHANGED << kernelVars, envVars, lwThread, allocVars, chanVars, workerVars, histVars >>

\* l.100: time.Sleep(10 * time.Second), then the next iteration
LWSleep ==
    /\ ~crashed
    /\ lwPc = "sleep"
    /\ lwPc' = "poll"
    /\ UNCHANGED << kernelVars, envVars, lwThread, didBridgeExist, stream, probes,
                    allocVars, chanVars, workerVars, histVars >>

(***************************************************************************)
(* Random names (plugin.go:346-352)                                        *)
(***************************************************************************)
\* The results of `length` successive rand.Intn(len(letterBytes)) calls the
\* model considers: three constant runs and one ascending run.
RandOutcomes(length) ==
    { [ i \in 1 .. length |-> k ] : k \in {0, 25, 35} }
        \cup { [ i \in 1 .. length |-> (i - 1) % Len(letterBytes) ] }

\* randString(length), for the rand.Intn results `draw`: its bytes in order
randString(length, draw) ==
    [ i \in 1 .. length |-> letterBytes[draw[i] + 1] ]

upperBytes ==
    << "A", "B", "C", "D", "E", "F", "G", "H", "I", "J", "K", "L", "M",
       "N", "O", "P", "Q", "R", "S", "T", "U", "V", "W", "X", "Y", "Z" >>

\* strings.ToUpper on a sequence of bytes: a-z to A-Z, digits unchanged
ToUpper(bytes) ==
    [ i \in 1 .. Len(bytes) |->
        LET k == CHOOSE j \in 1 .. Len(letterBytes) : letterBytes[j] = bytes[i] IN
        IF k <= Len(upperBytes) THEN upperBytes[k] ELSE bytes[i] ]

RECURSIVE JoinBytes(_)
JoinBytes(bytes) ==
    IF bytes = << >> THEN "" ELSE Head(bytes) \o JoinBytes(Tail(bytes))

\* l.154: fmt.Sprintf("%s%s", envVarNamePrefix, strings.ToUpper(randString(envVarNameSuffixLen)))
EnvVarName(draw) ==
    envVarNamePrefix \o JoinBytes(ToUpper(randString(envVarNameSuffixLen, draw)))

(***************************************************************************)
(* Allocate (plugin.go:127-172)                                            *)
(***************************************************************************)
\* resourceNamespace is declared in another file of the package
resourceNamespace == "bridge.network.kubevirt.io"

\* as getAssignmentPath, with the arguments of the format swapped
getAssignmentPathSwapped(bridge, nic) ==
    "/tmp/device-plugin-network-bridge/" \o nic \o "/" \o bridge

\* getAssignmentPath (l.187-189)
getAssignmentPath(bridge, nic) ==
    "/tmp/device-plugin-network-bridge/" \o bridge \o "/" \o nic

\* json.Marshal of a vnic, and of the elements of a []vnic
MarshalVnic(v) ==
    "{\"name\":\"" \o v.Name \o "\",\"protocol\":\"" \o v.Protocol \o "\"}"

RECURSIVE MarshalVnics(_)
MarshalVnics(vs) ==
    IF vs = << >> THEN ""
    ELSE IF Len(vs) = 1 THEN MarshalVnic(vs[1])
    ELSE MarshalVnic(vs[1]) \o "," \o MarshalVnics(Tail(vs))

\* json.Marshal(networkInterfaceResources{Name, Interfaces}); a nil slice
\* (no device was requested) is encoded as null
jsonMarshal(name, interfaces) ==
    "{\"name\":\"" \o name \o "\",\"interfaces\":"
        \o (IF interfaces = << >> THEN "null"
            ELSE "[" \o MarshalVnics(interfaces) \o "]")
        \o "}"

\* device IDs the kubelet asks for: members of the advertised pool
RequestedIDs == { DeviceID(7), DeviceID(nicsPoolSize - 1) }

SeqsUpTo(S, n) == UNION { [ 1 .. k -> S ] : k \in 0 .. n }

RECURSIVE Flatten(_)
Flatten(ss) == IF ss = << >> THEN << >> ELSE Head(ss) \o Flatten(Tail(ss))

\* r.ContainerRequests of an Allocate call: no device is asked for twice
AllocateRequests ==
    { r \in SeqsUpTo(SeqsUpTo(RequestedIDs, MaxDevices), MaxRequests) :
        \A i, j \in 1 .. Len(Flatten(r)) :
            Flatten(r)[i] = Flatten(r)[j] => i = j }

\* where the two loops of Allocate stand after a step
AfterDevice(j, req) == IF j <= Len(req) THEN "device" ELSE "marshal"

AfterRequest(i, reqs) ==
    IF i <= Len(reqs) THEN AfterDevice(1, reqs[i]) ELSE "return"

\* l.127-132: a call arrives; the loop over r.ContainerRequests begins
AllocateCall ==
    /\ ~crashed
    /\ allocPc = "idle"
    /\ allocReqs' = script
    /\ allocPc' = AfterRequest(1, script)
    /\ reqIdx' = 1
    /\ devIdx' = 1
    /\ devices' = << >>
    /\ vnics' = << >>
    /\ response' = << >>
    /\ allocSent' = << >>
    /\ allocFaults' = 0
    /\ UNCHANGED << kernelVars, envVars, lwVars, chanVars, workerVars, histVars >>

\* l.143-146: the Assignment built for device ID nic
NewAssignment(nic) ==
    [ id |-> nextId,
      DeviceID |-> nic,
      ContainerPath |-> getAssignmentPath(bridgeName, nic),
      Created |-> now ]

\* l.134-140 and what follows the send of l.142: the locals of the iteration
AllocDeviceLocals(nic) ==
    /\ devices' = Append(devices,
            [ HostPath |-> fakeDevicePath,
              ContainerPath |-> getAssignmentPath(bridgeName, nic),
              Permissions |-> "r" ])
    /\ vnics' = Append(vnics, [ Name |-> nic, Protocol |-> protocolEthernet ])
    /\ allocSent' = Append(allocSent, NewAssignment(nic))
    /\ nextId' = nextId + 1
    /\ devIdx' = devIdx + 1
    /\ allocPc' = AfterDevice(devIdx + 1, allocReqs[reqIdx])
    /\ resolvable' =
        IF containers[getAssignmentPath(bridgeName, nic)] = "running"
        THEN resolvable \cup {nextId} ELSE resolvable
    /\ UNCHANGED << allocReqs, reqIdx, response, allocFaults >>

\* as AllocDevice, the send completing only while attachPods stands at its select
AllocDeviceWaitsForSelect ==
    /\ ~crashed
    /\ allocPc = "device"
    /\ Len(assignmentCh) < chanCap
    /\ wPc = "select"
    /\ LET nic == allocReqs[reqIdx][devIdx] IN
        /\ assignmentCh' = Append(assignmentCh, NewAssignment(nic))
        /\ AllocDeviceLocals(nic)
    /\ UNCHANGED << kernelVars, envVars, lwVars, chanCap, workerVars, passVisited >>

\* as AllocDevice, nothing being sent for a request whose json.Marshal fails
AllocDeviceUnlessMarshalFault ==
    /\ ~crashed
    /\ allocPc = "device"
    /\ Len(assignmentCh) < chanCap
    /\ LET nic == allocReqs[reqIdx][devIdx] IN
        IF marshalErr[reqIdx]
        THEN /\ devIdx' = devIdx + 1
             /\ allocPc' = AfterDevice(devIdx + 1, allocReqs[reqIdx])
             /\ UNCHANGED << assignmentCh, devices, vnics, allocSent, nextId,
                             resolvable, allocReqs, reqIdx, response, allocFaults >>
        ELSE /\ assignmentCh' = Append(assignmentCh, NewAssignment(nic))
             /\ AllocDeviceLocals(nic)
    /\ UNCHANGED << kernelVars, envVars, lwVars, chanCap, workerVars, passVisited >>

\* l.133-147 with a buffered channel: the send of l.142 completes as soon as
\* the buffer has room
AllocDevice ==
    /\ ~crashed
    /\ allocPc = "device"
    /\ Len(assignmentCh) < chanCap
    /\ LET nic == allocReqs[reqIdx][devIdx] IN
        /\ assignmentCh' = Append(assignmentCh, NewAssignment(nic))
        /\ AllocDeviceLocals(nic)
    /\ UNCHANGED << kernelVars, envVars, lwVars, chanCap, workerVars, passVisited >>

\* as AllocMarshal, a json.Marshal failure ending the loop over the requests
AllocMarshalAbortsOnError ==
    /\ ~crashed
    /\ allocPc = "marshal"
    /\ LET envVarName == EnvVarName(randSource[reqIdx])
           marshalled == jsonMarshal(resourceNamespace \o "/" \o bridgeName, vnics)
       IN  IF ~marshalErr[reqIdx]
           THEN /\ response' = Append(response,
                       [ Devices |-> devices, Envs |-> (envVarName :> marshalled) ])
                /\ allocPc' = AfterRequest(reqIdx + 1, allocReqs)
                /\ UNCHANGED allocFaults
           ELSE /\ allocFaults' = allocFaults + 1
                /\ allocPc' = "return"
                /\ UNCHANGED response
    /\ reqIdx' = reqIdx + 1
    /\ devIdx' = 1
    /\ devices' = << >>
    /\ vnics' = << >>
    /\ UNCHANGED << allocReqs, allocSent >>
    /\ UNCHANGED << kernelVars, envVars, lwVars, chanVars, workerVars, histVars >>

\* l.149-168: name the variable, marshal the descriptor, append the response
AllocMarshal ==
    /\ ~crashed
    /\ allocPc = "marshal"
    /\ LET envVarName == EnvVarName(randSource[reqIdx])
           marshalled == jsonMarshal(resourceNamespace \o "/" \o bridgeName, vnics)
       IN  IF ~marshalErr[reqIdx]
           THEN /\ response' = Append(response,
                       [ Devices |-> devices, Envs |-> (envVarName :> marshalled) ])
                /\ UNCHANGED allocFaults
           ELSE /\ allocFaults' = allocFaults + 1
                /\ UNCHANGED response
    /\ reqIdx' = reqIdx + 1
    /\ devIdx' = 1
    /\ devices' = << >>
    /\ vnics' = << >>
    /\ allocPc' = AfterRequest(reqIdx + 1, allocReqs)
    /\ UNCHANGED << allocReqs, allocSent >>
    /\ UNCHANGED << kernelVars, envVars, lwVars, chanVars, workerVars, histVars >>

\* l.171: return &response, nil
AllocateReturn ==
    /\ ~crashed
    /\ allocPc = "return"
    /\ allocPc' = "done"
    /\ UNCHANGED << allocReqs, reqIdx, devIdx, devices, vnics, response,
                    allocSent, allocFaults >>
    /\ UNCHANGED << kernelVars, envVars, lwVars, chanVars, workerVars, histVars >>

\* time passes; the model's clock stops at MaxTime, and every Assignment
\* is created early enough to time out before it stops
Tick ==
    /\ now < MaxTime
    /\ allocPc = "done" \/ now + assignmentTimeout + 1 < MaxTime
    /\ now' = now + 1
    /\ UNCHANGED << kernelVars, containers, script, randSource, marshalErr,
                    lwVars, allocVars, chanVars, workerVars, histVars >>


\* Docker: a container mounting an assignment path appears, starts, goes away
ContainerStates == {"none", "created", "running"}

DockerChange ==
    /\ \E d \in { Flatten(allocReqs)[k] : k \in 1 .. Len(Flatten(allocReqs)) },
          st \in ContainerStates :
        LET path == getAssignmentPath(bridgeName, d) IN
        /\ containers[path] # st
        /\ containers' = [ containers EXCEPT ![path] = st ]
        /\ resolvable' =
            IF st = "running"
            THEN resolvable \cup
                    { allocSent[k].id : k \in
                        { j \in 1 .. Len(allocSent) :
                            /\ allocSent[j].ContainerPath = path
                            /\ now <= allocSent[j].Created + assignmentTimeout } }
            ELSE resolvable
    /\ UNCHANGED << kernelVars, now, script, randSource, marshalErr, lwVars,
                    allocVars, chanVars, workerVars, passVisited >>

\* The Go scheduler moves a goroutine to another OS thread: no goroutine of
\* the plugin is locked to its thread.
Migrate ==
    /\ ~crashed
    /\ \/ /\ \E t \in Threads \ {workerThread} : workerThread' = t
          /\ UNCHANGED lwThread
       \/ /\ \E t \in Threads \ {lwThread} : lwThread' = t
          /\ UNCHANGED workerThread
    /\ UNCHANGED << kernelVars, envVars, lwPc, didBridgeExist, stream, probes,
                    allocVars, chanVars, wPc, pending, cur, attachVars, crashed,
                    logVars, histVars >>

\* attachPodToBridge has switched no thread / created no veth pair
NotSwitched == [ thread |-> 0, from |-> "host" ]

NoVeth ==
    [ host |-> "none", master |-> "none", hostMtu |-> "none",
      peer |-> "none", peerUp |-> FALSE, peerMtu |-> "none" ]

(***************************************************************************)
(* container/list, as attachPods uses it (plugin.go:192, 204, 209, 215, 237) *)
(***************************************************************************)
\* pendingAssignments.Front(): the id of the first element, 0 (nil) if none
ListFront(l) == IF l = << >> THEN 0 ELSE l[1].id

ListElem(l, id) == l[CHOOSE k \in 1 .. Len(l) : l[k].id = id]

\* a.Next() for an element a of the list
ListNext(l, id) ==
    LET k == CHOOSE j \in 1 .. Len(l) : l[j].id = id IN
    IF k < Len(l) THEN l[k + 1].id ELSE 0

\* pendingAssignments.Remove(a)
ListRemove(l, id) == SelectSeq(l, LAMBDA e : e.id # id)

\* a.Next() after pendingAssignments.Remove(a): Remove clears a's links to
\* the list, so Next() returns nil and the for loop of l.209 ends
NextOfRemoved(l, id) == 0

\* the loop of l.209 stands at element `next`: its condition a != nil
ScanAt(next) == IF next = 0 THEN "select" ELSE "visit"

(***************************************************************************)
(* attachPods (plugin.go:191-240)                                          *)
(***************************************************************************)
\* as WSelectReceive, without the PushBack of l.204
WSelectReceiveDrops ==
    /\ ~crashed
    /\ wPc = "select"
    /\ assignmentCh # << >>
    /\ assignmentCh' = Tail(assignmentCh)
    /\ cur' = ListFront(pending)
    /\ wPc' = ScanAt(cur')
    /\ passVisited' = {}
    /\ UNCHANGED << kernelVars, envVars, lwVars, allocVars, chanCap, nextId,
                    workerThread, pending, attachVars, crashed, logVars, resolvable >>

\* l.202-204: an Assignment is buffered in the channel; receive it, push it
\* back, and start the scan of l.209
WSelectReceive ==
    /\ ~crashed
    /\ wPc = "select"
    /\ assignmentCh # << >>
    /\ pending' = Append(pending, Head(assignmentCh))
    /\ assignmentCh' = Tail(assignmentCh)
    /\ cur' = ListFront(pending')
    /\ wPc' = ScanAt(cur')
    /\ passVisited' = {}
    /\ UNCHANGED << kernelVars, envVars, lwVars, allocVars, chanCap, nextId,
                    workerThread, attachVars, crashed, logVars, resolvable >>

\* l.142 meets l.202 on an unbuffered channel: Allocate is blocked in its
\* send, the select of attachPods receives the Assignment from it directly
WSelectRendezvous ==
    /\ ~crashed
    /\ wPc = "select"
    /\ chanCap = 0
    /\ allocPc = "device"
    /\ LET nic == allocReqs[reqIdx][devIdx] IN
        /\ pending' = Append(pending, NewAssignment(nic))
        /\ AllocDeviceLocals(nic)
    /\ cur' = ListFront(pending')
    /\ wPc' = ScanAt(cur')
    /\ passVisited' = {}
    /\ UNCHANGED << kernelVars, envVars, lwVars, chanCap, assignmentCh,
                    workerThread, attachVars, crashed, logVars >>

\* l.205-206: nothing to receive; sleep a second, then scan
WSelectDefault ==
    /\ ~crashed
    /\ wPc = "select"
    /\ assignmentCh = << >>
    /\ cur' = ListFront(pending)
    /\ wPc' = ScanAt(cur')
    /\ passVisited' = {}
    /\ UNCHANGED << kernelVars, envVars, lwVars, allocVars, chanVars,
                    workerThread, pending, attachVars, crashed, logVars, resolvable >>

\* as WVisit, without the expiry check
WVisitNeverExpires ==
    /\ ~crashed
    /\ wPc = "visit"
    /\ wPc' = "lookupContainer"
    /\ passVisited' = passVisited \cup {cur}
    /\ UNCHANGED << kernelVars, envVars, lwVars, allocVars, chanVars,
                    workerThread, pending, cur, attachVars, crashed, logVars,
                    resolvable >>

\* l.210-217: the expiry check of the element a
WVisit ==
    /\ ~crashed
    /\ wPc = "visit"
    /\ LET assignment == ListElem(pending, cur) IN
        IF now > assignment.Created + assignmentTimeout
        THEN /\ pending' = ListRemove(pending, cur)
             /\ expiredLog' = Append(expiredLog, cur)
             /\ cur' = NextOfRemoved(pending, cur)
             /\ wPc' = ScanAt(cur')
        ELSE /\ wPc' = "lookupContainer"
             /\ UNCHANGED << pending, cur, expiredLog >>
    /\ passVisited' = passVisited \cup {cur}
    /\ UNCHANGED << kernelVars, envVars, lwVars, allocVars, chanVars,
                    workerThread, attachVars, crashed, resolvedLog, attachLog,
                    resolvable >>

\* as WLookupContainer, calling attachPodToBridge when no container is found
WLookupContainerAttachesUnresolved ==
    /\ ~crashed
    /\ wPc = "lookupContainer"
    /\ IF containers[ListElem(pending, cur).ContainerPath] = "none"
       THEN wPc' = "bridgeLookup"
       ELSE wPc' = "lookupPid"
    /\ UNCHANGED << kernelVars, envVars, lwVars, allocVars, chanVars,
                    workerThread, pending, cur, attachVars, crashed, logVars,
                    histVars >>

\* as WLookupContainer, a failed lookup ending the scan
WLookupContainerEndsPass ==
    /\ ~crashed
    /\ wPc = "lookupContainer"
    /\ IF containers[ListElem(pending, cur).ContainerPath] = "none"
       THEN /\ cur' = 0
            /\ wPc' = "select"
       ELSE /\ wPc' = "lookupPid"
            /\ UNCHANGED cur
    /\ UNCHANGED << kernelVars, envVars, lwVars, allocVars, chanVars,
                    workerThread, pending, attachVars, crashed, logVars, histVars >>

\* l.219-223: cli.GetContainerIDByMountedDevice(assignment.ContainerPath)
WLookupContainer ==
    /\ ~crashed
    /\ wPc = "lookupContainer"
    /\ IF containers[ListElem(pending, cur).ContainerPath] = "none"
       THEN /\ cur' = ListNext(pending, cur)
            /\ wPc' = ScanAt(cur')
       ELSE /\ wPc' = "lookupPid"
            /\ UNCHANGED cur
    /\ UNCHANGED << kernelVars, envVars, lwVars, allocVars, chanVars,
                    workerThread, pending, attachVars, crashed, logVars, histVars >>

\* as WLookupPid, the call of attachPodToBridge started without waiting for it
WLookupPidCallsAsync ==
    /\ ~crashed
    /\ wPc = "lookupPid"
    /\ IF containers[ListElem(pending, cur).ContainerPath] # "running"
       THEN UNCHANGED << resolvedLog, attachLog >>
       ELSE /\ resolvedLog' = Append(resolvedLog, cur)
            /\ attachLog' = Append(attachLog, cur)
    /\ cur' = ListNext(pending, cur)
    /\ wPc' = ScanAt(cur')
    /\ UNCHANGED << kernelVars, envVars, lwVars, allocVars, chanVars,
                    workerThread, pending, attachVars, crashed,
                    expiredLog, histVars >>

\* as WLookupPid, a failed lookup removing the element
WLookupPidDropsUnresolved ==
    /\ ~crashed
    /\ wPc = "lookupPid"
    /\ IF containers[ListElem(pending, cur).ContainerPath] # "running"
       THEN /\ pending' = ListRemove(pending, cur)
            /\ cur' = NextOfRemoved(pending, cur)
            /\ wPc' = ScanAt(cur')
            /\ UNCHANGED resolvedLog
       ELSE /\ wPc' = "bridgeLookup"
            /\ resolvedLog' = Append(resolvedLog, cur)
            /\ UNCHANGED << pending, cur >>
    /\ UNCHANGED << kernelVars, envVars, lwVars, allocVars, chanVars,
                    workerThread, attachVars, crashed, attachLog,
                    expiredLog, histVars >>

\* l.225-231: cli.GetPidByContainerID(containerID); with a pid, the call of
\* attachPodToBridge follows
WLookupPid ==
    /\ ~crashed
    /\ wPc = "lookupPid"
    /\ IF containers[ListElem(pending, cur).ContainerPath] # "running"
       THEN /\ cur' = ListNext(pending, cur)
            /\ wPc' = ScanAt(cur')
            /\ UNCHANGED resolvedLog
       ELSE /\ wPc' = "bridgeLookup"
            /\ resolvedLog' = Append(resolvedLog, cur)
            /\ UNCHANGED cur
    /\ UNCHANGED << kernelVars, envVars, lwVars, allocVars, chanVars,
                    workerThread, pending, attachVars, crashed, attachLog,
                    expiredLog, histVars >>

\* as WRemove, leaving the element in the list
WRemoveKeepsEntry ==
    /\ ~crashed
    /\ wPc = "remove"
    /\ cur' = ListNext(pending, cur)
    /\ wPc' = ScanAt(cur')
    /\ originalNS' = "host"
    /\ attachErr' = FALSE
    /\ created' = FALSE
    /\ switched' = NotSwitched
    /\ UNCHANGED << kernelVars, envVars, lwVars, allocVars, chanVars,
                    workerThread, pending, crashed, logVars, histVars >>

\* l.232-237: attachPodToBridge has returned; log, remove the element
WRemove ==
    /\ ~crashed
    /\ wPc = "remove"
    /\ pending' = ListRemove(pending, cur)
    /\ cur' = NextOfRemoved(pending, cur)
    /\ wPc' = ScanAt(cur')
    /\ originalNS' = "host"
    /\ attachErr' = FALSE
    /\ created' = FALSE
    /\ switched' = NotSwitched
    /\ UNCHANGED << kernelVars, envVars, lwVars, allocVars, chanVars,
                    workerThread, crashed, logVars, histVars >>

(***************************************************************************)
(* attachPodToBridge (plugin.go:242-339).  Every netlink / netns call acts *)
(* in the network namespace of the OS thread the goroutine runs on at that *)
(* moment, and may fail for reasons of the kernel's own.                   *)
(***************************************************************************)
\* namespace of the thread the attachPods goroutine is running on
WorkerNs == threadNs[workerThread]

\* the container process whose pid attachPods resolved is still alive
PidAlive == containers[ListElem(pending, cur).ContainerPath] = "running"

\* netlink.LinkDel(link) called in namespace ns: the host-side link is
\* addressed by its index in the caller's namespace; deleting it deletes
\* the pair.  The returned error is ignored by every caller.
LinkDel(v, ns) == IF v.host # "none" /\ ns = "host" THEN NoVeth ELSE v

attachFrame ==
    << bridgeLink, envVars, lwVars, allocVars, chanVars, workerThread, pending,
       cur, crashed, resolvedLog, expiredLog, histVars >>

\* `return err` before netns.Set(ns) has succeeded
ReturnErr ==
    /\ attachErr' = TRUE
    /\ wPc' = "remove"

\* netlink.LinkDel(link); return err -- before the namespace switch
RollbackReturn ==
    /\ veth' = LinkDel(veth, WorkerNs)
    /\ ReturnErr

\* netlink.LinkDel(link); return err -- after the switch: the deferred
\* function of l.308 runs next
RollbackReturnDeferred ==
    /\ veth' = LinkDel(veth, WorkerNs)
    /\ attachErr' = TRUE
    /\ wPc' = "restore"

\* l.243-249: linkName := randInterfaceName(); netlink.LinkByName(bridgeName)
AttachBridgeLookup ==
    /\ ~crashed
    /\ wPc = "bridgeLookup"
    /\ attachLog' = Append(attachLog, cur)
    /\ veth' = NoVeth
    /\ \E ok \in BOOLEAN :
        /\ ok => WorkerNs = "host" /\ bridgeLink # "absent"
        /\ IF ok THEN wPc' = "linkAdd" /\ UNCHANGED attachErr
                 ELSE ReturnErr
    /\ UNCHANGED << attachFrame, threadNs, originalNS, created, switched >>

\* l.252-263: netlink.LinkAdd(link): the pair is created in the caller's
\* namespace, the host side enslaved to the link named bridgeName and with
\* its MTU, the peer with the default MTU
AttachLinkAdd ==
    /\ ~crashed
    /\ wPc = "linkAdd"
    /\ \E ok \in BOOLEAN :
        /\ ok => WorkerNs = "host" /\ bridgeLink # "absent"
        /\ IF ok
           THEN /\ veth' = [ host |-> "down", master |-> bridgeLink,
                             hostMtu |-> "bridge", peer |-> "host",
                             peerUp |-> FALSE, peerMtu |-> "default" ]
                /\ created' = TRUE
                /\ wPc' = "linkSetUp"
                /\ UNCHANGED attachErr
           ELSE /\ ReturnErr
                /\ UNCHANGED << veth, created >>
    /\ UNCHANGED << attachFrame, threadNs, originalNS, switched, attachLog >>

\* l.265-270: netlink.LinkSetUp(link)
AttachLinkSetUp ==
    /\ ~crashed
    /\ wPc = "linkSetUp"
    /\ \E ok \in BOOLEAN :
        /\ ok => WorkerNs = "host" /\ veth.host # "none"
        /\ IF ok
           THEN /\ veth' = [ veth EXCEPT !.host = "up" ]
                /\ wPc' = "peerLookup"
                /\ UNCHANGED attachErr
           ELSE RollbackReturn
    /\ UNCHANGED << attachFrame, threadNs, originalNS, created, switched, attachLog >>

\* l.272-277: peer, err := netlink.LinkByName(nicName)
AttachPeerLookup ==
    /\ ~crashed
    /\ wPc = "peerLookup"
    /\ \E ok \in BOOLEAN :
        /\ ok => veth.peer = WorkerNs
        /\ IF ok
           THEN /\ wPc' = "setNsPid"
                /\ UNCHANGED << veth, attachErr >>
           ELSE RollbackReturn
    /\ UNCHANGED << attachFrame, threadNs, originalNS, created, switched, attachLog >>

\* l.279-284: netlink.LinkSetNsPid(peer, containerPid)
AttachSetNsPid ==
    /\ ~crashed
    /\ wPc = "setNsPid"
    /\ \E ok \in BOOLEAN :
        /\ ok => veth.peer = WorkerNs /\ PidAlive
        /\ IF ok
           THEN /\ veth' = [ veth EXCEPT !.peer = "ctr" ]
                /\ wPc' = "nsGet"
                /\ UNCHANGED attachErr
           ELSE RollbackReturn
    /\ UNCHANGED << attachFrame, threadNs, originalNS, created, switched, attachLog >>

\* l.286-291: originalNS, err := netns.Get(): the namespace of the calling thread
AttachNsGet ==
    /\ ~crashed
    /\ wPc = "nsGet"
    /\ \E ok \in BOOLEAN :
        IF ok
        THEN /\ originalNS' = WorkerNs
             /\ wPc' = "nsFromPid"
             /\ UNCHANGED << veth, attachErr >>
        ELSE /\ RollbackReturn
             /\ UNCHANGED originalNS
    /\ UNCHANGED << attachFrame, threadNs, created, switched, attachLog >>

\* l.293-298: ns, err := netns.GetFromPid(containerPid)
AttachNsFromPid ==
    /\ ~crashed
    /\ wPc = "nsFromPid"
    /\ \E ok \in BOOLEAN :
        /\ ok => PidAlive
        /\ IF ok
           THEN /\ wPc' = "nsSet"
                /\ UNCHANGED << veth, attachErr >>
           ELSE RollbackReturn
    /\ UNCHANGED << attachFrame, threadNs, originalNS, created, switched, attachLog >>

\* l.300-315: netns.Set(ns) switches the calling thread; on success the
\* restoring function is deferred
AttachNsSet ==
    /\ ~crashed
    /\ wPc = "nsSet"
    /\ \E ok \in BOOLEAN :
        IF ok
        THEN /\ threadNs' = [ threadNs EXCEPT ![workerThread] = "ctr" ]
             /\ switched' = [ thread |-> workerThread, from |-> WorkerNs ]
             /\ wPc' = "peerLookupNs"
             /\ UNCHANGED << veth, attachErr >>
        ELSE /\ RollbackReturn
             /\ UNCHANGED << threadNs, switched >>
    /\ UNCHANGED << attachFrame, originalNS, created, attachLog >>

\* l.317-322: peer, err = netlink.LinkByName(nicName)
AttachPeerLookupNs ==
    /\ ~crashed
    /\ wPc = "peerLookupNs"
    /\ \E ok \in BOOLEAN :
        /\ ok => veth.peer = WorkerNs
        /\ IF ok
           THEN /\ wPc' = "peerMtu"
                /\ UNCHANGED << veth, attachErr >>
           ELSE RollbackReturnDeferred
    /\ UNCHANGED << attachFrame, threadNs, originalNS, created, switched, attachLog >>

\* l.324-329: netlink.LinkSetMTU(peer, link.MTU)
AttachPeerMtu ==
    /\ ~crashed
    /\ wPc = "peerMtu"
    /\ \E ok \in BOOLEAN :
        /\ ok => veth.peer = WorkerNs
        /\ IF ok
           THEN /\ veth' = [ veth EXCEPT !.peerMtu = "bridge" ]
                /\ wPc' = "peerUp"
                /\ UNCHANGED attachErr
           ELSE RollbackReturnDeferred
    /\ UNCHANGED << attachFrame, threadNs, originalNS, created, switched, attachLog >>

\* l.331-338: netlink.LinkSetUp(peer); return nil
AttachPeerUp ==
    /\ ~crashed
    /\ wPc = "peerUp"
    /\ \E ok \in BOOLEAN :
        /\ ok => veth.peer = WorkerNs
        /\ IF ok
           THEN /\ veth' = [ veth EXCEPT !.peerUp = TRUE ]
                /\ wPc' = "restore"
                /\ UNCHANGED attachErr
           ELSE RollbackReturnDeferred
    /\ UNCHANGED << attachFrame, threadNs, originalNS, created, switched, attachLog >>

\* l.308-315, run on every return after the switch: netns.Set(originalNS)
\* on the thread the goroutine runs on now; panic if it fails
AttachRestore ==
    /\ ~crashed
    /\ wPc = "restore"
    /\ \E ok \in BOOLEAN :
        IF ok
        THEN /\ threadNs' = [ threadNs EXCEPT ![workerThread] = originalNS ]
             /\ wPc' = "remove"
             /\ UNCHANGED crashed
        ELSE /\ crashed' = TRUE
             /\ UNCHANGED << threadNs, wPc >>
    /\ UNCHANGED << bridgeLink, veth, envVars, lwVars, allocVars, chanVars,
                    workerThread, pending, cur, attachVars, logVars, histVars >>

(***************************************************************************)
(* The plugin after construction and Start: no stream message sent, no     *)
(* Allocate call made, attachPods at the top of its loop.                  *)
(***************************************************************************)
Init ==
    /\ bridgeLink \in LinkKinds
    /\ threadNs = [ t \in Threads |-> "host" ]
    /\ veth = NoVeth
    /\ now = 0
    /\ containers =
        [ p \in { getAssignmentPath(bridgeName, d) : d \in RequestedIDs } |-> "none" ]
    /\ script \in AllocateRequests
    /\ randSource \in [ 1 .. Len(script) -> RandOutcomes(envVarNameSuffixLen) ]
    /\ marshalErr \in [ 1 .. Len(script) -> BOOLEAN ]
    /\ lwThread \in Threads
    /\ lwPc = "start"
    /\ didBridgeExist = FALSE
    /\ stream = << >>
    /\ probes = << >>
    /\ chanCap \in ChannelCapacities
    /\ assignmentCh = << >>
    /\ nextId = 1
    /\ allocPc = "idle"
    /\ allocReqs = << >>
    /\ reqIdx = 1
    /\ devIdx = 1
    /\ devices = << >>
    /\ vnics = << >>
    /\ response = << >>
    /\ allocSent = << >>
    /\ allocFaults = 0
    /\ workerThread \in Threads
    /\ wPc = "select"
    /\ pending = << >>
    /\ cur = 0
    /\ originalNS = "host"
    /\ attachErr = FALSE
    /\ created = FALSE
    /\ switched = NotSwitched
    /\ crashed = FALSE
    /\ resolvedLog = << >>
    /\ attachLog = << >>
    /\ expiredLog = << >>
    /\ resolvable = {}
    /\ passVisited = {}

ListAndWatchStep == LWStart \/ LWPoll \/ LWSleep

AllocateStep == AllocateCall \/ AllocDevice \/ AllocMarshal \/ AllocateReturn

AttachPodsStep ==
    \/ WSelectReceive
    \/ WSelectRendezvous
    \/ WSelectDefault
    \/ WVisit
    \/ WLookupContainer
    \/ WLookupPid
    \/ WRemove

AttachPodToBridgeStep ==
    \/ AttachBridgeLookup
    \/ AttachLinkAdd
    \/ AttachLinkSetUp
    \/ AttachPeerLookup
    \/ AttachSetNsPid
    \/ AttachNsGet
    \/ AttachNsFromPid
    \/ AttachNsSet
    \/ AttachPeerLookupNs
    \/ AttachPeerMtu
    \/ AttachPeerUp
    \/ AttachRestore

Next ==
    \/ ListAndWatchStep
    \/ AllocateStep
    \/ AttachPodsStep
    \/ AttachPodToBridgeStep
    \/ BridgeChange
    \/ DockerChange
    \/ Migrate
    \/ Tick

Spec == Init /\ [][Next]_vars

\* ListAndWatch alone against a changing bridge
InitListAndWatch == Init /\ script = << >>

NextListAndWatch == ListAndWatchStep \/ BridgeChange

SpecListAndWatch == InitListAndWatch /\ [][NextListAndWatch]_vars

\* Allocate with attachPods receiving from the channel; no container ever
\* mounts an assignment path
InitAllocate ==
    /\ Init
    /\ workerThread = 1
    /\ lwThread = 1
    /\ bridgeLink = "bridge"

NextAllocate ==
    \/ AllocateStep
    \/ WSelectReceive
    \/ WSelectRendezvous
    \/ WSelectDefault
    \/ WVisit
    \/ WLookupContainer

SpecAllocate == InitAllocate /\ [][NextAllocate]_vars

\* the assignment pipeline: Allocate, attachPods, attachPodToBridge, Docker
\* and the clock, every goroutine staying on its thread
InitPipeline ==
    /\ Init
    /\ script = << << DeviceID(7), DeviceID(nicsPoolSize - 1) >> >>
    /\ \A k \in 1 .. Len(script) :
        /\ randSource[k] = [ i \in 1 .. envVarNameSuffixLen |-> (i - 1) % Len(letterBytes) ]
        /\ ~marshalErr[k]
    /\ bridgeLink = "bridge"
    /\ workerThread = 1
    /\ lwThread = 1

NextPipeline ==
    \/ AllocateStep
    \/ AttachPodsStep
    \/ AttachPodToBridgeStep
    \/ DockerChange
    \/ Tick

SpecPipeline == InitPipeline /\ [][NextPipeline]_vars

\* one attachment against a changing kernel, the scheduler moving the
\* goroutine between threads
InitAttach ==
    /\ Init
    /\ script = << << DeviceID(7) >> >>
    /\ randSource[1] = [ i \in 1 .. envVarNameSuffixLen |-> 0 ]
    /\ ~marshalErr[1]
    /\ lwThread = 1

NextAttach ==
    \/ AllocateStep
    \/ AttachPodsStep
    \/ AttachPodToBridgeStep
    \/ DockerChange
    \/ BridgeChange
    \/ Migrate

SpecAttach == InitAttach /\ [][NextAttach]_vars

\* ListAndWatch, Allocate and attachPods side by side, the bridge present in
\* the host namespace throughout, the scheduler moving the goroutines
InitConcurrent ==
    /\ Init
    /\ script = << << DeviceID(7) >> >>
    /\ randSource[1] = [ i \in 1 .. envVarNameSuffixLen |-> 0 ]
    /\ ~marshalErr[1]
    /\ bridgeLink = "bridge"

NextConcurrent ==
    \/ ListAndWatchStep
    \/ AllocateStep
    \/ AttachPodsStep
    \/ AttachPodToBridgeStep
    \/ DockerChange
    \/ Migrate

SpecConcurrent == InitConcurrent /\ [][NextConcurrent]_vars

\* the pipeline for one request whose json.Marshal fails
InitMarshalFault ==
    /\ Init
    /\ script = << << DeviceID(7) >> >>
    /\ randSource[1] = [ i \in 1 .. envVarNameSuffixLen |-> 0 ]
    /\ marshalErr[1]
    /\ bridgeLink = "bridge"
    /\ workerThread = 1
    /\ lwThread = 1

SpecMarshalFault == InitMarshalFault /\ [][NextPipeline]_vars

(***************************************************************************)
(* Properties of ListAndWatch                                              *)
(***************************************************************************)
\* the values a sequence of probes takes at its first element and at every
\* element that differs from its predecessor
RECURSIVE Transitions(_)
Transitions(ps) ==
    IF Len(ps) <= 1 THEN ps
    ELSE LET front == SubSeq(ps, 1, Len(ps) - 1) IN
         IF ps[Len(ps)] # ps[Len(ps) - 1]
         THEN Append(Transitions(front), ps[Len(ps)])
         ELSE Transitions(front)

\* C1: the stream holds exactly one message for the probe at stream start
\* and one for every later probe whose result differs from the probe before
\* it (a transition of bridge existence as ListAndWatch observes it), in
\* that order, and none for a probe that repeats the last result; the k-th
\* message lists devices exactly when the k-th observed state is "present",
\* so the first message reflects the probe made at stream start.
ListAndWatchOneMessagePerTransition ==
    /\ Len(stream) = Len(Transitions(probes))
    /\ \A k \in 1 .. Len(stream) :
        (stream[k].Devices # << >>) = Transitions(probes)[k]

\* three messages were sent and at least one poll sent none
ListAndWatchTransitionsSeen ==
    /\ Len(stream) >= 3
    /\ Len(probes) > Len(stream)

\* C2: a message sent for an observed-present bridge lists exactly
\* nicsPoolSize = 100 devices, the k-th with ID "<bridge>-<two digits of k-1>"
\* and healthy, the IDs pairwise distinct; a message sent for an
\* observed-absent bridge lists no device.
ListAndWatchPayloads ==
    \A k \in 1 .. Len(stream) :
        LET devs == stream[k].Devices IN
        IF Transitions(probes)[k]
        THEN /\ Len(devs) = 100
             /\ \A i \in 1 .. Len(devs) :
                /\ devs[i].ID = "br0-" \o DecimalDigits[((i - 1) \div 10) + 1]
                                        \o DecimalDigits[((i - 1) % 10) + 1]
                /\ devs[i].Health = "Healthy"
             /\ \A i, j \in 1 .. Len(devs) : devs[i].ID = devs[j].ID => i = j
        ELSE devs = << >>

\* the stream holds a message for a present and one for an absent bridge
ListAndWatchBothPayloadsSent ==
    /\ \E k \in 1 .. Len(stream) : Len(stream[k].Devices) = nicsPoolSize
    /\ \E k \in 1 .. Len(stream) : stream[k].Devices = << >>

(***************************************************************************)
(* Properties of Allocate                                                  *)
(***************************************************************************)
\* the Assignments received by attachPods or still buffered, oldest first
Queued == pending \o assignmentCh

\* C7: when Allocate has returned and no json.Marshal failed, the response
\* holds one entry per container request, in request order, the i-th entry
\* with one device spec per device ID of the i-th request (host path the
\* sentinel, container path /tmp/device-plugin-network-bridge/<bridge>/<id>,
\* permission "r"), and exactly one Assignment per requested device ID has
\* been put on the channel, in request order.
AllocateResponseAndAssignments ==
    (allocPc = "done" /\ allocFaults = 0) =>
        /\ Len(response) = Len(allocReqs)
        /\ \A i \in 1 .. Len(response) :
            /\ Len(response[i].Devices) = Len(allocReqs[i])
            /\ \A j \in 1 .. Len(allocReqs[i]) :
                response[i].Devices[j] =
                    [ HostPath |-> "/var/run/device-plugin-network-bridge-fakedev",
                      ContainerPath |->
                        "/tmp/device-plugin-network-bridge/br0/" \o allocReqs[i][j],
                      Permissions |-> "r" ]
        /\ Len(Queued) = Len(Flatten(allocReqs))
        /\ \A k \in 1 .. Len(Queued) :
            /\ Queued[k].DeviceID = Flatten(allocReqs)[k]
            /\ Queued[k].ContainerPath =
                "/tmp/device-plugin-network-bridge/br0/" \o Flatten(allocReqs)[k]
        /\ allocSent = Queued

\* a call with two container requests and two device IDs has returned
AllocateTwoRequestsReturned ==
    /\ allocPc = "done"
    /\ allocFaults = 0
    /\ Len(allocReqs) = 2
    /\ Len(Flatten(allocReqs)) = 2
    /\ Len(response) = 2

\* C8: no two container responses of one Allocate call carry the same
\* environment-variable name.
AllocateEnvVarNamesDistinct ==
    \A i, j \in 1 .. Len(response) :
        (DOMAIN response[i].Envs = DOMAIN response[j].Envs) => i = j

\* the container requests of the call whose json.Marshal does not fail
OkRequests == { k \in 1 .. Len(allocReqs) : ~marshalErr[k] }

\* the i-th of them, in request order
NthOk(i) == CHOOSE k \in OkRequests : Cardinality({ j \in OkRequests : j < k }) = i - 1

\* C12: when Allocate has returned, the response holds one entry for every
\* container request whose json.Marshal succeeded, in request order and with
\* that request's device specs, and none for a request whose json.Marshal
\* failed; the call returns (l.171, with a nil error) whatever failed.
AllocateSkipsOnlyFailedRequests ==
    allocPc = "done" =>
        /\ Len(response) = Cardinality(OkRequests)
        /\ allocFaults = Len(allocReqs) - Cardinality(OkRequests)
        /\ \A i \in 1 .. Len(response) :
            LET k == NthOk(i) IN
            /\ Len(response[i].Devices) = Len(allocReqs[k])
            /\ \A j \in 1 .. Len(allocReqs[k]) :
                response[i].Devices[j].ContainerPath =
                    "/tmp/device-plugin-network-bridge/br0/" \o allocReqs[k][j]

\* a call of two requests has returned: json.Marshal failed for the first,
\* the response holds the entry of the second
AllocateFirstRequestFailed ==
    /\ allocPc = "done"
    /\ Len(allocReqs) = 2
    /\ Len(allocReqs[2]) = 1
    /\ marshalErr[1]
    /\ ~marshalErr[2]
    /\ Len(response) = 1

\* the pipeline with the scheduling the program has: time passes, the
\* attachPods goroutine keeps running (its Docker and kernel calls return),
\* the goroutine serving Allocate keeps running, and a send it is blocked
\* in is taken by the select of attachPods
FairSpecPipeline ==
    /\ SpecPipeline
    /\ WF_vars(Tick)
    /\ WF_vars(AttachPodsStep \/ AttachPodToBridgeStep)
    /\ WF_vars(AllocateStep)
    /\ SF_vars(WSelectRendezvous)

(***************************************************************************)
(* Properties of attachPods                                                *)
(***************************************************************************)
Range(seq) == { seq[k] : k \in 1 .. Len(seq) }

PendingIds == { pending[k].id : k \in 1 .. Len(pending) }

\* the statements of attachPodToBridge
AttachPcs ==
    { "bridgeLookup", "linkAdd", "linkSetUp", "peerLookup", "setNsPid", "nsGet",
      "nsFromPid", "nsSet", "peerLookupNs", "peerMtu", "peerUp", "restore" }

\* C3: attachPodToBridge is invoked at most once per Assignment, only for
\* an Assignment whose container and pid were resolved, and once for each
\* of those (the call is made, or attachPods stands at it); when the call
\* has returned the Assignment is no longer pending, so it is not retried.
AttachInvokedOncePerAssignment ==
    /\ \A i, j \in 1 .. Len(attachLog) : attachLog[i] = attachLog[j] => i = j
    /\ \A i, j \in 1 .. Len(resolvedLog) : resolvedLog[i] = resolvedLog[j] => i = j
    /\ Range(attachLog) \subseteq Range(resolvedLog)
    /\ \A id \in Range(resolvedLog) :
        id \in Range(attachLog) \/ (wPc = "bridgeLookup" /\ cur = id)
    /\ \A id \in Range(attachLog) :
        id \in PendingIds => (cur = id /\ wPc \in AttachPcs \cup {"remove"})

\* two Assignments were attached, and removed after their attachment
AttachTwoAssignmentsDone ==
    /\ Len(attachLog) = 2
    /\ pending = << >>
    /\ wPc = "select"

\* C4, as claimed: attachPodToBridge is invoked only for an Assignment whose
\* container was resolvable at some time within assignmentTimeout of Created.
AttachOnlyIfResolvableInTime == Range(attachLog) \subseteq resolvable

\* C4, amended: attachPodToBridge is invoked only for an Assignment whose
\* container and pid lookups have succeeded, never for one removed as timed
\* out; an Assignment that leaves the pending list without an attachment
\* left it as timed out; and eventually every Assignment of the call has
\* left the channel and the pending list for good, unless the process dies
\* in the panic of l.313 first.
UnresolvedAssignmentExpires ==
    /\ [](/\ Range(attachLog) \subseteq Range(resolvedLog)
          /\ Range(expiredLog) \cap Range(attachLog) = {}
          /\ \A k \in 1 .. Len(allocSent) :
                LET id == allocSent[k].id IN
                (id \notin PendingIds /\ \A j \in 1 .. Len(assignmentCh) :
                                            assignmentCh[j].id # id)
                    => id \in Range(expiredLog) \cup Range(attachLog))
    /\ <>[](crashed \/ (allocPc = "done" /\ pending = << >> /\ assignmentCh = << >>))

\* one Assignment timed out unresolved while the other was attached
AttachOneExpiredOneAttached ==
    /\ Len(expiredLog) = 1
    /\ Len(attachLog) = 1
    /\ pending = << >>

\* C9, as claimed: no Assignment is pending later than Created + assignmentTimeout.
PendingWithinTimeout ==
    \A k \in 1 .. Len(pending) : now <= pending[k].Created + assignmentTimeout

\* C9, amended: an expiry check (l.213) made on a pending Assignment later
\* than Created + assignmentTimeout removes it, without a lookup and without
\* an attachment; until that check the Assignment can be pending past the
\* timeout.
ExpiryCheckRemovesOverdue ==
    [][ ( /\ wPc = "visit"
          /\ wPc' # "visit"
          /\ now > ListElem(pending, cur).Created + assignmentTimeout )
        => ( /\ \A k \in 1 .. Len(pending') : pending'[k].id # cur
             /\ wPc' = "select"
             /\ attachLog' = attachLog ) ]_vars

\* an Assignment was removed as timed out while a second one, overdue too,
\* is still pending
PendingOverdueAfterExpiry ==
    /\ expiredLog # << >>
    /\ \E k \in 1 .. Len(pending) : now > pending[k].Created + assignmentTimeout

\* C10: while the channel holds fewer Assignments than its capacity, the
\* send of Allocate (l.142) can complete whatever attachPods is doing, and
\* so can the marshalling and the return that follow it.
AllocateNeverWaitsForAttachPods ==
    ~crashed =>
        /\ (allocPc = "device" /\ Len(assignmentCh) < chanCap) => ENABLED AllocDevice
        /\ allocPc = "marshal" => ENABLED AllocMarshal
        /\ allocPc = "return" => ENABLED AllocateReturn

\* Allocate stands at its send with room in the channel while attachPods is
\* inside attachPodToBridge with the thread switched to the container
AllocateSendsDuringAttach ==
    /\ allocPc = "device"
    /\ Len(assignmentCh) < chanCap
    /\ wPc \in { "peerLookupNs", "peerMtu", "peerUp", "restore" }

(***************************************************************************)
(* Properties of attachPodToBridge                                         *)
(***************************************************************************)
\* C5: when attachPodToBridge returns an error after netlink.LinkAdd has
\* succeeded, the host-side link it created no longer exists.
AttachFailureDeletesHostLink ==
    (wPc = "remove" /\ attachErr /\ created) => veth.host = "none"

\* C6: when attachPodToBridge returns after netns.Set(ns) has switched a
\* thread, that thread is back in the namespace it was switched from.
AttachReturnsWithThreadRestored ==
    (wPc = "remove" /\ switched.thread # 0) =>
        threadNs[switched.thread] = switched.from

(***************************************************************************)
(* Properties of the assignment pipeline                                   *)
(***************************************************************************)
\* how often x occurs in seq
Count(seq, x) == Cardinality({ k \in 1 .. Len(seq) : seq[k] = x })

\* how often the Assignment id is held in the channel or the pending list
Held(id) ==
    Cardinality({ k \in 1 .. Len(assignmentCh) : assignmentCh[k].id = id })
        + Cardinality({ k \in 1 .. Len(pending) : pending[k].id = id })

\* how often the Assignment id has been expired or handed to attachPodToBridge
Consumed(id) == Count(expiredLog, id) + Count(attachLog, id)

\* C11: an Assignment Allocate has put on the channel is held exactly once
\* (in the channel, then in the pending list) until it is consumed, and it is
\* consumed exactly once, by an expiry or by one call of attachPodToBridge
\* (during which it is still in the list); eventually every Assignment sent
\* has been received and consumed, unless the process dies in the panic of
\* l.313.
NoAssignmentDropped ==
    /\ [](\A k \in 1 .. Len(allocSent) :
            LET id == allocSent[k].id IN
            /\ Held(id) <= 1
            /\ Consumed(id) <= 1
            /\ Held(id) = 0 => Consumed(id) = 1
            /\ (Held(id) = 1 /\ Consumed(id) = 1) =>
                    /\ id \in PendingIds
                    /\ cur = id
                    /\ wPc \in AttachPcs \cup {"remove"}
                    /\ Count(attachLog, id) = 1)
    /\ <>[](crashed \/
            \A k \in 1 .. Len(allocSent) :
                Held(allocSent[k].id) = 0 /\ Consumed(allocSent[k].id) = 1)

\* two Assignments went through a buffered channel and both timed out
AssignmentsBothExpired ==
    /\ chanCap = 1
    /\ Len(allocSent) = 2
    /\ Len(expiredLog) = 2
    /\ assignmentCh = << >>

(***************************************************************************)
(* Properties of the scan of attachPods (l.209-238)                        *)
(***************************************************************************)
\* C13: when a scan pass has ended, every entry of the pending list was
\* visited in that pass.
ScanVisitsEveryEntry == wPc = "select" => PendingIds \subseteq passVisited

\* position of the element a in the pending list
CurIndex == CHOOSE k \in 1 .. Len(pending) : pending[k].id = cur

\* C14: an entry whose lookup failed stays in place and the pass goes on
\* behind it: while the pass stands at an entry, every entry ahead of it was
\* visited in this pass and is still pending, unattached; and a pass that
\* has removed nothing has visited every entry, so a resolvable entry behind
\* an unresolvable one is reached, and attached, in the same pass.
NoHeadOfLineBlocking ==
    /\ wPc # "select" =>
        \A k \in 1 .. Len(pending) :
            k < CurIndex =>
                /\ pending[k].id \in passVisited
                /\ pending[k].id \notin Range(attachLog)
    /\ (wPc = "select" /\ passVisited \subseteq PendingIds) =>
        PendingIds \subseteq passVisited

\* the younger of two pending Assignments is being attached in the pass
\* that visited the older one and left it in place
YoungerAttachedBehindOlder ==
    /\ Len(pending) = 2
    /\ pending[1].id \in passVisited
    /\ cur = pending[2].id
    /\ wPc \in AttachPcs
    /\ attachLog = << cur >>

\* C17: a step of attachPods whose container lookup (l.219) or pid lookup
\* (l.225) fails leaves the pending list as it is (same entries, same
\* order, same Created), logs no resolution and no attachment, and moves to
\* the entry behind, or to the select when there is none.
LookupFailureLeavesEntry ==
    [][ ( /\ wPc' # wPc
          /\ \/ /\ wPc = "lookupContainer"
                /\ containers[ListElem(pending, cur).ContainerPath] = "none"
             \/ /\ wPc = "lookupPid"
                /\ containers[ListElem(pending, cur).ContainerPath] # "running" )
        => ( /\ pending' = pending
             /\ resolvedLog' = resolvedLog
             /\ attachLog' = attachLog
             /\ cur' = ListNext(pending, cur)
             /\ wPc' = ScanAt(cur') ) ]_vars

\* the pass stands at the second entry after the lookup of the first one
\* failed: the first is still pending, nothing was attached or expired
LookupFailedEntryKept ==
    /\ wPc = "visit"
    /\ Len(pending) = 2
    /\ cur = pending[2].id
    /\ pending[1].id \in passVisited
    /\ attachLog = << >>
    /\ expiredLog = << >>

(***************************************************************************)
(* Properties of the attachPodToBridge call and of the namespaces          *)
(***************************************************************************)
\* C15: whenever attachPods stands at its call of attachPodToBridge, the
\* link named nbdp.bridge exists in the host namespace and is a bridge.
AttachInvokedWithBridgePresent == wPc = "bridgeLookup" => bridgeLink = "bridge"

AttachPostcondition ==
    /\ (wPc = "remove" /\ ~attachErr) =>
        /\ created
        /\ veth = [ host |-> "up", master |-> "bridge", hostMtu |-> "bridge",
                    peer |-> "ctr", peerUp |-> TRUE, peerMtu |-> "bridge" ]
        /\ veth.peerMtu = veth.hostMtu
    /\ (wPc = "remove" /\ attachErr /\ ~created) =>
        /\ veth = NoVeth
        /\ switched = NotSwitched

\* C19: whenever ListAndWatch stands at a bridgeExists probe (l.91, l.95),
\* the thread it runs on is in the host namespace.
ListAndWatchProbesInHostNamespace ==
    (~crashed /\ lwPc \in { "start", "poll" }) => threadNs[lwThread] = "host"

\* devices of the requests Allocate has finished sending for
SentSoFar ==
    IF allocPc \in { "return", "done" } THEN Flatten(allocReqs)
    ELSE IF allocPc = "marshal" THEN Flatten(SubSeq(allocReqs, 1, reqIdx))
    ELSE << >>

\* C20: when Allocate reaches json.Marshal for a request (l.155), one
\* Assignment per device of that request and of the requests before it has
\* already been put on the channel, and it stays so when json.Marshal
\* fails: after the return every requested device has its Assignment, which
\* is held in the channel or the pending list until it is consumed by an
\* attachment or an expiry.
MarshalFaultKeepsAssignments ==
    /\ allocPc \in { "marshal", "return", "done" } =>
        /\ Len(allocSent) = Len(SentSoFar)
        /\ \A k \in 1 .. Len(allocSent) : allocSent[k].DeviceID = SentSoFar[k]
    /\ \A k \in 1 .. Len(allocSent) :
        Held(allocSent[k].id) = 0 => Consumed(allocSent[k].id) = 1

\* json.Marshal failed for the only request, the response is empty, and the
\* request's Assignment has been attached successfully
MarshalFaultAssignmentAttached ==
    /\ allocPc = "done"
    /\ allocFaults = 1
    /\ response = << >>
    /\ attachLog = << 1 >>
    /\ wPc = "remove"
    /\ ~attachErr

====
